---- MODULE Spec2Model ----
(***************************************************************************)
(* Model of src/ml/train_sdg_predictor.py: the feature-engineering and     *)
(* prediction pipeline main() runs on the table load_training_data()       *)
(* returns: engineer_features -> train_model -> generate_predictions ->    *)
(* export_to_bigquery -> save_predictions_csv; and of the paging loop of   *)
(* WorldBankExtractor.extract_indicator in src/scripts/extract_data.py.    *)
(*                                                                         *)
(* Numbers.  A float cell is a pair <<n, d>>: the rational n/d in lowest   *)
(* terms with d > 0, or NaN (pandas' missing value) when d = 0.            *)
(* Strings.  A text cell is a string, or NA (None/NaN in an object column).*)
(* String order is the alphabetical order listed in StrOrder.              *)
(***************************************************************************)
EXTENDS Integers, Sequences, FiniteSets, TLC

\* The running process of train_sdg_predictor.py: its position in main, its
\* local tables, and the project its environment names.
VARIABLES pc, df, features, le_region, le_income, model, predictions, error,
          GCP_PROJECT_ID

\* What outlives a run: the staging_marts.ml_sdg_predictions table of each
\* project and data/exports/ml_sdg_predictions.csv; the clock read by
\* datetime.utcnow().
VARIABLES ml_sdg_predictions, csv_file, utcnow

\* A second process of train_sdg_predictor.py that is not on the processor.
VARIABLE suspended

\* WorldBankExtractor.extract_indicator: its position, the API it queries,
\* its locals page and all_data, and the pages it has requested so far.
VARIABLES wb_pc, server, page, all_data, requested

process == <<pc, df, features, le_region, le_income, model, predictions, error,
             GCP_PROJECT_ID>>

outputs == <<ml_sdg_predictions, csv_file>>

extractor == <<wb_pc, server, page, all_data, requested>>

vars == <<process, outputs, utcnow, suspended, extractor>>

\* Largest number of rows of the table handed to engineer_features.
MaxRows == 3

\* Largest number of runs of main one after the other.
MaxRuns == 2

\* Largest number of pages the World Bank API holds or reports.
MaxPages == 3

(***************************************************************************)
(* Float cells                                                             *)
(***************************************************************************)
NaN == <<0, 0>>

IsNaN(x) == x[2] = 0

Abs(i) == IF i < 0 THEN -i ELSE i

RECURSIVE Gcd(_, _)
Gcd(a, b) == IF b = 0 THEN a ELSE Gcd(b, a % b)

\* n/d in lowest terms, d # 0.
Frac(n, d) ==
    LET g == Gcd(Abs(n), Abs(d))
        s == IF d < 0 THEN -1 ELSE 1
    IN  <<(s * n) \div g, (s * d) \div g>>

Num(i) == <<i, 1>>

Less(x, y) == x[1] * y[2] < y[1] * x[2]

Add(x, y) == Frac(x[1] * y[2] + y[1] * x[2], x[2] * y[2])

DivInt(x, k) == Frac(x[1], x[2] * k)

(***************************************************************************)
(* Text cells                                                              *)
(***************************************************************************)
NA == "<NA>"

StrOrder ==
    <<"AAA", "Asia", "BBB", "CCC", "DDD", "Europe", "G1", "G2", "High income",
      "Low income", "Unknown">>

StrPos(s) == CHOOSE i \in 1..Len(StrOrder) : StrOrder[i] = s

StrLess(a, b) == StrPos(a) < StrPos(b)

(***************************************************************************)
(* Sequences                                                               *)
(***************************************************************************)
Range(s) == {s[i] : i \in 1..Len(s)}

\* Order of a sort key with missing keys last (na_position = 'last').
KeyLess(a, b) == a # NA /\ (b = NA \/ StrLess(a, b))

\* Row order of df.sort_values(['country_code', 'goal_code', 'year']).
RowLess(a, b) ==
    \/ KeyLess(a.country_code, b.country_code)
    \/ /\ a.country_code = b.country_code
       /\ KeyLess(a.goal_code, b.goal_code)
    \/ /\ a.country_code = b.country_code
       /\ a.goal_code = b.goal_code
       /\ a.year < b.year

\* Order of the keys of groupby(['country_code', 'goal_code']).
PairLess(a, b) == StrLess(a[1], b[1]) \/ (a[1] = b[1] /\ StrLess(a[2], b[2]))

\* The orders sorted by: float cells, label classes, strings, group keys,
\* table rows.
Precedes(order, a, b) ==
    CASE order = "float" -> Less(a, b)
      [] order = "int"   -> a < b
      [] order = "text"  -> StrLess(a, b)
      [] order = "key"   -> PairLess(a, b)
      [] order = "row"   -> RowLess(a, b)

\* x placed after every element that does not sort after it (stable).
RECURSIVE InsertBy(_, _, _)
InsertBy(order, x, s) ==
    IF s = <<>> THEN <<x>>
    ELSE IF Precedes(order, x, s[1]) THEN <<x>> \o s
    ELSE <<s[1]>> \o InsertBy(order, x, Tail(s))

RECURSIVE SortBy(_, _)
SortBy(order, s) ==
    IF s = <<>> THEN <<>>
    ELSE InsertBy(order, s[Len(s)], SortBy(order, SubSeq(s, 1, Len(s) - 1)))

Column(t, c) == [i \in 1..Len(t) |-> t[i][c]]

(***************************************************************************)
(* pandas reductions (NaN/None skipped)                                    *)
(***************************************************************************)
IsPresent(x) == ~IsNaN(x)

dropna(s) == SelectSeq(s, IsPresent)

RECURSIVE SumAll(_)
SumAll(s) == IF s = <<>> THEN Num(0) ELSE Add(s[1], SumAll(Tail(s)))

RECURSIVE SumSquares(_)
SumSquares(s) ==
    IF s = <<>> THEN Num(0)
    ELSE Add(Frac(s[1][1] * s[1][1], s[1][2] * s[1][2]), SumSquares(Tail(s)))

\* Series.sum(): 0 when nothing is present (min_count = 0).
sum(s) == SumAll(dropna(s))

mean(s) ==
    LET v == dropna(s)
    IN  IF v = <<>> THEN NaN ELSE DivInt(SumAll(v), Len(v))

\* Series.std() with ddof = 1, kept as its square (the sample variance):
\* (n * sum(x^2) - sum(x)^2) / (n * (n - 1)); NaN with fewer than 2 values.
std(s) ==
    LET v  == dropna(s)
        n  == Len(v)
        sx == SumAll(v)
        sq == SumSquares(v)
        a  == Frac(n * sq[1], sq[2])
        b  == Frac(sx[1] * sx[1], sx[2] * sx[2])
    IN  IF n < 2 THEN NaN
        ELSE DivInt(Add(a, Frac(-b[1], b[2])), n * (n - 1))

min(s) ==
    LET v == dropna(s)
    IN  IF v = <<>> THEN NaN ELSE SortBy("float", v)[1]

max(s) ==
    LET v == dropna(s)
    IN  IF v = <<>> THEN NaN ELSE SortBy("float", v)[Len(v)]

\* GroupBy.last(): the last value that is present.
last(s) ==
    LET v == dropna(s)
    IN  IF v = <<>> THEN NaN ELSE v[Len(v)]

IsText(x) == x # NA

last_text(s) ==
    LET v == SelectSeq(s, IsText)
    IN  IF v = <<>> THEN NA ELSE v[Len(v)]

RECURSIVE MaxInt(_)
MaxInt(s) ==
    IF Len(s) = 1 THEN s[1]
    ELSE LET m == MaxInt(Tail(s)) IN IF s[1] > m THEN s[1] ELSE m

\* median taking the lower of the two middle values.
median_low(s) ==
    LET v == SortBy("float", dropna(s))
        n == Len(v)
    IN  IF n = 0 THEN NaN ELSE v[(n + 1) \div 2]

\* Series.median(): the middle value, or the mean of the two middle values.
median(s) ==
    LET v == SortBy("float", dropna(s))
        n == Len(v)
    IN  IF n = 0 THEN NaN
        ELSE IF n % 2 = 1 THEN v[(n + 1) \div 2]
        ELSE DivInt(Add(v[n \div 2], v[n \div 2 + 1]), 2)

\* fillna whose result is dropped: the cell stays as it was.
fillna_dropped(x, fill) == x

fillna(x, fill) == IF IsNaN(x) THEN fill ELSE x

fillna_text(x, fill) == IF x = NA THEN fill ELSE x

\* First occurrences, in order of appearance.
RECURSIVE Unique(_)
Unique(s) ==
    IF s = <<>> THEN <<>>
    ELSE LET u == Unique(SubSeq(s, 1, Len(s) - 1))
             x == s[Len(s)]
         IN  IF x \in Range(u) THEN u ELSE Append(u, x)

IndexOf(s, x) == CHOOSE i \in 1..Len(s) : s[i] = x

(***************************************************************************)
(* engineer_features                                                       *)
(***************************************************************************)
\* sort_values left out: the rows stay in the order of the input.
sort_values_skipped(t) == t

\* df.sort_values(['country_code', 'goal_code', 'year']): a stable
\* lexicographic sort.
sort_values(t) == SortBy("row", t)

\* df.sort_values('year'): a single-column sort with the default
\* kind = 'quicksort', which is not stable: rows of equal year come out in an
\* order the numpy build decides.  Every year-ordered arrangement is possible.
RowOrders(n) ==
    {p \in [1..n -> 1..n] : \A i, j \in 1..n : i # j => p[i] # p[j]}

YearSorts(t) ==
    {[i \in 1..Len(t) |-> t[p[i]]] : p \in
        {q \in RowOrders(Len(t)) :
            \A i \in 1..Len(t) - 1 : t[q[i]].year <= t[q[i + 1]].year}}

HasKey(r) == r.country_code # NA /\ r.goal_code # NA

\* The groups of groupby(['country_code', 'goal_code']): rows with a missing
\* key are left out (dropna = True), groups come in key order (sort = True).
GroupKeys(t) ==
    LET keyed == SelectSeq(t, HasKey)
    IN  SortBy("key",
               Unique([i \in 1..Len(keyed) |->
                          <<keyed[i].country_code, keyed[i].goal_code>>]))

\* GroupRows grouping by country_code alone.
GroupRowsByCountry(t, k) ==
    SelectSeq(t, LAMBDA r : r.country_code = k[1])

GroupRows(t, k) ==
    SelectSeq(t, LAMBDA r : r.country_code = k[1] /\ r.goal_code = k[2])

\* Lines 71-85: one row of progress_features.
AggRow(t, k) ==
    LET g == GroupRows(t, k)
    IN  [country_code            |-> k[1],
         goal_code               |-> k[2],
         value_mean              |-> mean(Column(g, "avg_indicator_value")),
         value_std               |-> std(Column(g, "avg_indicator_value")),
         value_min               |-> min(Column(g, "avg_indicator_value")),
         value_max               |-> max(Column(g, "avg_indicator_value")),
         value_latest            |-> last(Column(g, "avg_indicator_value")),
         avg_yoy_change          |-> mean(Column(g, "yoy_change")),
         total_change            |-> sum(Column(g, "yoy_change")),
         data_points             |-> Len(g),
         latest_year             |-> MaxInt(Column(g, "year")),
         avg_indicators_measured |-> mean(Column(g, "indicators_measured"))]

progress_features(t) ==
    LET keys == GroupKeys(t)
    IN  [i \in 1..Len(keys) |-> AggRow(t, keys[i])]

IsCountry(c) == c # NA

\* Lines 88-91: per country, the last present value of each attribute in
\* year order.
latest_attrs(byYear) ==
    LET codes == Range(SelectSeq(Column(byYear, "country_code"), IsCountry))
    IN  [c \in codes |->
            LET g == SelectSeq(byYear, LAMBDA r : r.country_code = c)
            IN  [country_name        |-> last_text(Column(g, "country_name")),
                 region              |-> last_text(Column(g, "region")),
                 income_level        |-> last_text(Column(g, "income_level")),
                 gdp_per_capita      |-> last(Column(g, "gdp_per_capita")),
                 population          |-> last(Column(g, "population")),
                 life_expectancy     |-> last(Column(g, "life_expectancy")),
                 adult_literacy_rate |-> last(Column(g, "adult_literacy_rate"))]]

\* Line 94: left join on country_code.
merge(progress, attrs) ==
    [i \in 1..Len(progress) |-> progress[i] @@ attrs[progress[i].country_code]]

\* Lines 97-103.
fill_missing(f) ==
    [i \in 1..Len(f) |->
        [f[i] EXCEPT
            !.value_std = fillna(@, Num(0)),
            !.avg_yoy_change = fillna(@, Num(0)),
            !.total_change = fillna(@, Num(0)),
            !.gdp_per_capita = fillna(@, median(Column(f, "gdp_per_capita"))),
            !.population = fillna(@, median(Column(f, "population"))),
            !.life_expectancy = fillna(@, median(Column(f, "life_expectancy"))),
            !.adult_literacy_rate =
                fillna(@, median(Column(f, "adult_literacy_rate")))]]

\* OnTrack with the comparison not strict (>=).
OnTrackOrEqual(change, median_change) ==
    IF Less(change, median_change) THEN 0 ELSE 1

\* Lines 107-108.
OnTrack(change, median_change) == IF Less(median_change, change) THEN 1 ELSE 0

create_target(f) ==
    LET median_change == median(Column(f, "avg_yoy_change"))
    IN  [i \in 1..Len(f) |->
            f[i] @@ [on_track_2030 |->
                        OnTrack(f[i].avg_yoy_change, median_change)]]

\* fit keeping the values in order of first appearance (no sort).
fit_unsorted(y) == Unique(y)

\* LabelEncoder.fit: classes_ is the sorted array of the distinct values.
fit(y) == SortBy("text", Unique(y))

\* fit_transform with positions counted from 1.
fit_transform_one_based(y) ==
    [i \in 1..Len(y) |-> IndexOf(SortBy("text", Unique(y)), y[i])]

\* LabelEncoder.fit_transform: each value's zero-based position in classes_.
fit_transform(y) ==
    LET classes == fit(y)
    IN  [i \in 1..Len(y) |-> IndexOf(classes, y[i]) - 1]

Unknown(col) == [i \in 1..Len(col) |-> fillna_text(col[i], "Unknown")]

\* Lines 111-115.
encode(f) ==
    LET region == fit_transform(Unknown(Column(f, "region")))
        income == fit_transform(Unknown(Column(f, "income_level")))
    IN  [i \in 1..Len(f) |->
            f[i] @@ [region_encoded |-> region[i],
                     income_encoded |-> income[i]]]

\* engineer_features(df), with byYear the outcome of the sort on line 88.
engineer_features(t, byYear) ==
    encode(create_target(fill_missing(
        merge(progress_features(t), latest_attrs(byYear)))))

(***************************************************************************)
(* train_model                                                             *)
(***************************************************************************)
fill0(x) == fillna(x, Num(0))

\* Lines 128-135 and 178: X = features[feature_cols].fillna(0).
feature_matrix(f) ==
    [i \in 1..Len(f) |->
        [value_mean              |-> fill0(f[i].value_mean),
         value_std               |-> fill0(f[i].value_std),
         value_min               |-> fill0(f[i].value_min),
         value_max               |-> fill0(f[i].value_max),
         value_latest            |-> fill0(f[i].value_latest),
         avg_yoy_change          |-> fill0(f[i].avg_yoy_change),
         total_change            |-> fill0(f[i].total_change),
         data_points             |-> f[i].data_points,
         avg_indicators_measured |-> fill0(f[i].avg_indicators_measured),
         gdp_per_capita          |-> fill0(f[i].gdp_per_capita),
         population              |-> fill0(f[i].population),
         life_expectancy         |-> fill0(f[i].life_expectancy),
         adult_literacy_rate     |-> fill0(f[i].adult_literacy_rate),
         region_encoded          |-> f[i].region_encoded,
         income_encoded          |-> f[i].income_encoded]]

\* train_test_split(test_size = 0.2): n_test = ceil(0.2 * n).
n_test(n) == (n + 4) \div 5

\* The test rows train_test_split may pick: the shuffle is fixed by
\* random_state = 42 but is the library's, so any n_test rows.
TestSplits(n) == {t \in SUBSET (1..n) : Cardinality(t) = n_test(n)}

NoModel == [classes_ |-> <<>>, forest |-> <<>>]

\* RandomForestClassifier.fit(X_train, y_train): classes_ is the sorted
\* array of the labels seen; the fitted forest is a function of a feature
\* row.  It gives the fraction of the vote for the last class of classes_
\* (1 when a single class was seen).
Fitted(y_train, forest) ==
    [classes_ |-> SortBy("int", Unique(y_train)), forest |-> forest]

\* predict_proba(X): one row per record, one column per class of classes_.
predict_proba(m, X) ==
    [i \in 1..Len(X) |->
        IF Len(m.classes_) = 1 THEN <<Num(1)>>
        ELSE <<Add(Num(1), Frac(-m.forest[X[i]][1], m.forest[X[i]][2])),
               m.forest[X[i]]>>]

(***************************************************************************)
(* generate_predictions                                                    *)
(***************************************************************************)
\* on_track with the threshold at 0.3.
on_track_from_lowest_edge(p) == IF ~Less(p, Frac(3, 10)) THEN 1 ELSE 0

\* Line 184.
on_track(p) == IF ~Less(p, Frac(1, 2)) THEN 1 ELSE 0

\* Lines 189-190.
bins == <<Num(0), Frac(3, 10), Frac(1, 2), Frac(7, 10), Num(1)>>

labels == <<"Off Track", "At Risk", "Moderate Progress", "On Track">>

\* InBin with right = False: bin i is [bins[i], bins[i+1]).
InBinLeftClosed(x, i) == ~Less(x, bins[i]) /\ Less(x, bins[i + 1])

\* pd.cut(x, bins, labels) with the defaults right = True and
\* include_lowest = False: bin i is (bins[i], bins[i+1]]; a value in no bin
\* is NaN.
InBin(x, i) == Less(bins[i], x) /\ ~Less(bins[i + 1], x)

cut(x) ==
    IF \E i \in 1..Len(labels) : InBin(x, i)
    THEN labels[CHOOSE i \in 1..Len(labels) : InBin(x, i)]
    ELSE NA

\* with_predictions leaving out the first record of the table.
with_predictions_but_first(f, p) ==
    [i \in 1..(Len(f) - 1) |->
        [prediction_2030_probability |-> p[i + 1],
         prediction_2030_on_track    |-> on_track(p[i + 1]),
         prediction_category         |-> cut(p[i + 1])] @@ f[i + 1]]

\* Lines 183-191: the three columns set on the table; a column the table
\* already has is overwritten.
with_predictions(f, p) ==
    [i \in 1..Len(f) |->
        [prediction_2030_probability |-> p[i],
         prediction_2030_on_track    |-> on_track(p[i]),
         prediction_category         |-> cut(p[i])] @@ f[i]]

(***************************************************************************)
(* export_to_bigquery and save_predictions_csv                             *)
(***************************************************************************)
\* A table or file that does not exist, and one that holds rows.
Absent == [exists |-> FALSE, rows |-> <<>>]

Stored(rows) == [exists |-> TRUE, rows |-> rows]

\* Line 217: astype(str) turns a missing category into the text 'nan'.
astype_str(x) == IF x = NA THEN "nan" ELSE x

\* Lines 210-218: df_export, the export columns and predicted_at.
df_export(p, now) ==
    [i \in 1..Len(p) |->
        [country_code                |-> p[i].country_code,
         country_name                |-> p[i].country_name,
         goal_code                   |-> p[i].goal_code,
         region                      |-> p[i].region,
         income_level                |-> p[i].income_level,
         value_latest                |-> p[i].value_latest,
         avg_yoy_change              |-> p[i].avg_yoy_change,
         data_points                 |-> p[i].data_points,
         prediction_2030_probability |-> p[i].prediction_2030_probability,
         prediction_2030_on_track    |-> p[i].prediction_2030_on_track,
         prediction_category         |-> astype_str(p[i].prediction_category),
         predicted_at                |-> now]]

\* A load job that adds to the rows the table holds (WRITE_APPEND).
WRITE_APPEND(table, rows) == Stored(table.rows \o rows)

\* Lines 223-228: a load job with write_disposition = "WRITE_TRUNCATE"
\* replaces whatever the table holds, and creates the table if there is
\* none.
WRITE_TRUNCATE(table, rows) == Stored(rows)

\* to_csv writes a missing text cell as the empty field (na_rep = '').  A
\* float cell keeps its value: NaN stands for its empty field.
na_rep(x) == IF x = NA THEN "" ELSE x

\* Lines 240-246: the lines predictions[export_cols].to_csv writes below the
\* header, in the order of the table.
to_csv(p) ==
    [i \in 1..Len(p) |->
        [country_code                |-> na_rep(p[i].country_code),
         country_name                |-> na_rep(p[i].country_name),
         goal_code                   |-> na_rep(p[i].goal_code),
         region                      |-> na_rep(p[i].region),
         income_level                |-> na_rep(p[i].income_level),
         value_latest                |-> p[i].value_latest,
         avg_yoy_change              |-> p[i].avg_yoy_change,
         data_points                 |-> p[i].data_points,
         prediction_2030_probability |-> p[i].prediction_2030_probability,
         prediction_2030_on_track    |-> p[i].prediction_2030_on_track,
         prediction_category         |-> na_rep(p[i].prediction_category)]]

\* What a to_csv that raised part-way has left of the file: opened for
\* writing (so cut to nothing) and some of the lines written.
Truncated(lines) == {Stored(SubSeq(lines, 1, k)) : k \in 0..(Len(lines) - 1)}

(***************************************************************************)
(* Input tables                                                            *)
(***************************************************************************)
\* The name the warehouse holds for a country code.
CountryName(cc) ==
    CASE cc = "AAA" -> "Atlantis"
      [] cc = "BBB" -> "Borduria"
      [] cc = "CCC" -> "Carpania"
      [] cc = "DDD" -> "Drackenberg"
      [] OTHER      -> NA

Observation(cc, gc, yr, val, yoy, ctx) ==
    [country_code        |-> cc,
     country_name        |-> CountryName(cc),
     goal_code           |-> gc,
     year                |-> yr,
     indicators_measured |-> Num(3),
     avg_indicator_value |-> val,
     yoy_change          |-> yoy] @@ ctx

Context(region, income, gdp, pop, life, lit) ==
    [region              |-> region,
     income_level        |-> income,
     gdp_per_capita      |-> gdp,
     population          |-> pop,
     life_expectancy     |-> life,
     adult_literacy_rate |-> lit]

CtxAsia == Context("Asia", "High income", Num(5), Num(7), Num(70), Num(90))

CtxEurope == Context("Europe", "Low income", Num(9), Num(2), Num(80), Num(60))

\* The region and two of the numeric attributes are missing.
CtxGap == Context(NA, "High income", NaN, Num(4), NaN, Num(50))

CtxUnknown == Context("Unknown", NA, Num(1), NaN, Num(60), NaN)

CtxNone == Context(NA, NA, NaN, NaN, NaN, NaN)

\* An observation whose year and value follow its change: no change known
\* in the first year, value 10 + change in the second.
Trend(cc, gc, yoy, ctx) ==
    Observation(cc, gc,
                IF IsNaN(yoy) THEN 2000 ELSE 2001,
                IF IsNaN(yoy) THEN Num(10) ELSE Add(Num(10), yoy),
                yoy, ctx)

\* Rows for the aggregation and the label: three keys with changes absent,
\* negative or positive, and one row each with a missing country, goal or
\* value.
RowsAgg ==
    {Trend("AAA", "G1", y, CtxAsia) : y \in {NaN, Num(-2), Num(4)}}
    \cup {Trend("AAA", "G2", y, CtxAsia) : y \in {NaN, Num(4)}}
    \cup {Trend("BBB", "G1", y, CtxAsia) : y \in {Num(-2), Num(4)}}
    \cup {Trend(NA, "G1", Num(4), CtxAsia),
          Trend("AAA", NA, Num(-2), CtxAsia),
          [Trend("BBB", "G1", Num(4), CtxAsia)
              EXCEPT !.avg_indicator_value = NaN]}

\* Rows for the attribute join: one country seen in two years and two goals
\* with full, different and partly missing attributes, and a second country.
RowsJoin ==
    {Observation("AAA", "G1", yr, Num(10), Num(4), ctx) :
        yr \in {2000, 2001}, ctx \in {CtxAsia, CtxEurope, CtxGap}}
    \cup {Observation("AAA", "G2", 2001, Num(10), Num(-2), CtxAsia),
          Observation("AAA", "G2", 2000, Num(10), Num(-2), CtxGap),
          Observation("BBB", "G1", 2000, Num(10), NaN, CtxAsia)}

\* Rows for the encoders: three countries with different changes, in
\* contexts whose region and income_level are present, literally "Unknown"
\* or missing.
RowsEnc ==
    {Trend("AAA", "G1", Num(4), ctx) :
        ctx \in {CtxAsia, CtxEurope, CtxUnknown, CtxNone}}
    \cup {Trend("BBB", "G1", Num(-2), ctx) :
        ctx \in {CtxAsia, CtxUnknown, CtxNone}}
    \cup {Trend("CCC", "G1", NaN, ctx) : ctx \in {CtxAsia, CtxEurope}}

\* Rows for the predictor: three keys with different changes.
RowsPred ==
    {Trend("AAA", "G1", Num(4), CtxAsia),
     Trend("AAA", "G2", Num(-2), CtxEurope),
     Trend("BBB", "G1", NaN, CtxGap)}

Tables(rows) == UNION {[1..n -> rows] : n \in 1..MaxRows}

\* Tables for runs one after the other: three keys, four keys, and a single
\* observation (too few to train on).
RunTables ==
    {<<Trend("AAA", "G1", Num(4), CtxAsia),
       Trend("AAA", "G2", Num(-2), CtxEurope),
       Trend("BBB", "G1", NaN, CtxGap)>>,
     <<Trend("AAA", "G1", Num(-2), CtxEurope),
       Trend("BBB", "G1", Num(4), CtxAsia),
       Trend("CCC", "G1", NaN, CtxUnknown),
       Trend("CCC", "G2", Num(4), CtxUnknown)>>,
     <<Trend("BBB", "G1", Num(4), CtxAsia)>>}

\* The probabilities a fitted forest may give a record: every bin edge of
\* generate_predictions and a value inside every bin.
ProbGrid ==
    {Num(0), Frac(1, 10), Frac(3, 10), Frac(49999, 100000), Frac(1, 2),
     Frac(3, 5), Frac(7, 10), Frac(9, 10), Num(1)}

ProbCoarse == {Frac(1, 5), Frac(4, 5)}

(***************************************************************************)
(* WorldBankExtractor.extract_indicator (src/scripts/extract_data.py)      *)
(***************************************************************************)
\* One element of the API's data array.  The year comes as text; the value
\* is a JSON number or null, held as a float cell with NaN for null.
ApiRecord(cc, date, value) ==
    [country |-> [id |-> cc, value |-> CountryName(cc)],
     date    |-> date,
     value   |-> value]

\* The API: whether it answers with an error message, the page count its
\* header reports, and the records of its pages.
NoServer == [error |-> FALSE, pages |-> 0, content |-> <<>>]

\* Lines 221-222: response.json() for page p, [header, records]; an error
\* answer has the message alone; a page the API does not hold has no
\* records.
response(srv, p) ==
    IF srv.error THEN <<[message |-> "Invalid value"]>>
    ELSE <<[page |-> p, pages |-> srv.pages],
           IF p \in 1..Len(srv.content) THEN srv.content[p] ELSE <<>>>>

\* Line 235: int(r.get('date', 0)).
int(date) ==
    CASE date = "2000" -> 2000
      [] date = "2024" -> 2024

\* Python's truth value of a JSON number or null: null and zero are false.
truth(x) == ~IsNaN(x) /\ x[1] # 0

\* Line 236: float(r.get('value')) if r.get('value') else None.
float_or_none(x) == IF truth(x) THEN x ELSE NaN

\* Line 229: r.get('value') is not None.
has_value(r) == ~IsNaN(r.value)

\* Lines 228-238: the rows appended for one page of records.
extracted(records, now) ==
    LET kept == SelectSeq(records, has_value)
    IN  [i \in 1..Len(kept) |->
            [indicator_code |-> "SP.POP.TOTL",
             indicator_name |-> "Population",
             country_code   |-> kept[i].country.id,
             country_name   |-> kept[i].country.value,
             year           |-> int(kept[i].date),
             value          |-> float_or_none(kept[i].value),
             extracted_at   |-> now]]

\* Pages of the API: without records, with a null value only, with a
\* value and a zero, with a null and a fractional value.
PageContents ==
    {<<>>,
     <<ApiRecord("AAA", "2000", NaN)>>,
     <<ApiRecord("AAA", "2000", Num(5)), ApiRecord("BBB", "2024", Num(0))>>,
     <<ApiRecord("BBB", "2000", NaN), ApiRecord("CCC", "2024", Frac(7, 2))>>}

\* The APIs queried: up to MaxPages pages held, and a page count reported
\* that may be smaller or larger than the pages held.
Servers ==
    {[error |-> e, pages |-> n, content |-> c] :
        e \in BOOLEAN,
        n \in 0..MaxPages,
        c \in UNION {[1..k -> PageContents] : k \in 0..MaxPages}}

\* last_page with the test the wrong way round at the boundary (>).
last_page_exceeded(p, header) == p > header.pages

\* Lines 241-243: page >= total_pages.
last_page(p, header) == p >= header.pages

(***************************************************************************)
(* main: lines 250-270                                                     *)
(***************************************************************************)
\* Line 22: the project of the environment, by default sdg-tracker-484407,
\* and a second project another environment may name.
DefaultProject == "sdg-tracker-484407"

Projects == {DefaultProject, "sdg-tracker-b"}

\* What a step that works on the process' own tables leaves alone.
elsewhere == <<GCP_PROJECT_ID, outputs, utcnow, suspended, extractor>>

\* No second process.
NoProcess ==
    [pc             |-> "none",
     df             |-> <<>>,
     features       |-> <<>>,
     le_region      |-> <<>>,
     le_income      |-> <<>>,
     model          |-> NoModel,
     predictions    |-> <<>>,
     error          |-> "none",
     GCP_PROJECT_ID |-> "none"]

\* A process whose load_training_data has returned table.
Loaded(project, table) ==
    [NoProcess EXCEPT !.pc = "engineer_features",
                      !.df = table,
                      !.GCP_PROJECT_ID = project]

\* The first run in a fresh checkout and project: no output exists yet.
InitOutputs ==
    /\ ml_sdg_predictions = [p \in Projects |-> Absent]
    /\ csv_file = Absent
    /\ utcnow = 1

ExtractorIdle ==
    /\ wb_pc = "idle"
    /\ server = NoServer
    /\ page = 1
    /\ all_data = <<>>
    /\ requested = <<>>

\* Line 257: load_training_data has returned one of tables.
Start(tables) ==
    /\ pc = "engineer_features"
    /\ df \in tables
    /\ features = <<>>
    /\ le_region = <<>>
    /\ le_income = <<>>
    /\ model = NoModel
    /\ predictions = <<>>
    /\ error = "none"
    /\ GCP_PROJECT_ID = DefaultProject
    /\ InitOutputs
    /\ ExtractorIdle

\* One process of main.
InitWith(tables) == Start(tables) /\ suspended = NoProcess

\* Line 260: features, le_region, le_income = engineer_features(df).
EngineerFeatures ==
    /\ pc = "engineer_features"
    /\ LET sorted == sort_values(df)
       IN  \E byYear \in YearSorts(sorted) :
              features' = engineer_features(sorted, byYear)
    /\ le_region' = fit(Unknown(Column(features', "region")))
    /\ le_income' = fit(Unknown(Column(features', "income_level")))
    /\ pc' = "train_model"
    /\ UNCHANGED <<df, model, predictions, error>>
    /\ UNCHANGED elsewhere

\* The forests fit may return over the rows of X, with probabilities in grid.
Forests(X, y_train, grid) ==
    IF Cardinality(Range(y_train)) = 1
    THEN {[x \in Range(X) |-> Num(1)]}
    ELSE [Range(X) -> grid]

\* Line 263: model, feature_cols = train_model(features).  train_test_split
\* raises ValueError when the train set would be empty.
TrainModel(grid) ==
    /\ pc = "train_model"
    /\ LET n == Len(features)
           X == feature_matrix(features)
       IN  \/ /\ n - n_test(n) = 0
              /\ error' = "ValueError"
              /\ pc' = "failed"
              /\ UNCHANGED model
           \/ /\ n - n_test(n) > 0
              /\ \E test \in TestSplits(n) :
                    LET y_train == Column(SelectSeq(
                                       [i \in 1..n |-> [i |-> i,
                                           y |-> features[i].on_track_2030]],
                                       LAMBDA r : r.i \notin test), "y")
                    IN  \E forest \in Forests(X, y_train, grid) :
                           model' = Fitted(y_train, forest)
              /\ pc' = "generate_predictions"
              /\ UNCHANGED error
    /\ UNCHANGED <<df, features, le_region, le_income, predictions>>
    /\ UNCHANGED elsewhere

\* Line 266: predictions = generate_predictions(model, features, feature_cols).
\* predict_proba(X)[:, 1] raises IndexError when the model has one class; the
\* new columns are set on the caller's table.
GeneratePredictions ==
    /\ pc = "generate_predictions"
    /\ LET proba == predict_proba(model, feature_matrix(features))
       IN  \/ /\ Len(proba[1]) < 2
              /\ error' = "IndexError"
              /\ pc' = "failed"
              /\ UNCHANGED <<features, predictions>>
           \/ /\ Len(proba[1]) >= 2
              /\ predictions' = with_predictions(features, Column(proba, 2))
              /\ features' = predictions'
              /\ pc' = "export_to_bigquery"
              /\ UNCHANGED error
    /\ UNCHANGED <<df, le_region, le_income, model>>
    /\ UNCHANGED elsewhere

\* Line 269: export_to_bigquery(predictions).  The load job replaces the
\* project's table (WRITE_TRUNCATE) when it succeeds; a job that fails, or
\* a client that cannot reach the service, raises and leaves the table.
ExportToBigquery ==
    /\ pc = "export_to_bigquery"
    /\ \/ /\ ml_sdg_predictions' =
                [ml_sdg_predictions EXCEPT
                    ![GCP_PROJECT_ID] =
                        WRITE_TRUNCATE(@, df_export(predictions, utcnow))]
          /\ pc' = "save_predictions_csv"
          /\ UNCHANGED error
       \/ /\ error' = "GoogleAPIError"
          /\ pc' = "failed"
          /\ UNCHANGED ml_sdg_predictions
    /\ UNCHANGED <<df, features, le_region, le_income, model, predictions>>
    /\ UNCHANGED <<GCP_PROJECT_ID, csv_file, utcnow, suspended, extractor>>

\* Line 270: save_predictions_csv(predictions).  The path does not depend
\* on the project.  to_csv replaces the file; makedirs or open may raise
\* OSError before the file is touched, a write may raise after it was cut.
SavePredictionsCsv ==
    /\ pc = "save_predictions_csv"
    /\ \/ /\ csv_file' = Stored(to_csv(predictions))
          /\ pc' = "done"
          /\ UNCHANGED error
       \/ /\ csv_file' \in {csv_file} \cup Truncated(to_csv(predictions))
          /\ error' = "OSError"
          /\ pc' = "failed"
    /\ UNCHANGED <<df, features, le_region, le_income, model, predictions>>
    /\ UNCHANGED <<GCP_PROJECT_ID, ml_sdg_predictions, utcnow, suspended,
                   extractor>>

\* python train_sdg_predictor.py is started again after a run has ended:
\* lines 250-257, with load_training_data returning one of tables.
Main(tables) ==
    /\ pc \in {"done", "failed"}
    /\ utcnow < MaxRuns
    /\ utcnow' = utcnow + 1
    /\ pc' = "engineer_features"
    /\ df' \in tables
    /\ features' = <<>>
    /\ le_region' = <<>>
    /\ le_income' = <<>>
    /\ model' = NoModel
    /\ predictions' = <<>>
    /\ error' = "none"
    /\ UNCHANGED <<GCP_PROJECT_ID, outputs, suspended, extractor>>

\* The scheduler takes the running process off the processor and resumes
\* the other one where it stopped.
Switch ==
    /\ suspended.pc \notin {"none", "done", "failed"}
    /\ suspended' =
          [pc             |-> pc,
           df             |-> df,
           features       |-> features,
           le_region      |-> le_region,
           le_income      |-> le_income,
           model          |-> model,
           predictions    |-> predictions,
           error          |-> error,
           GCP_PROJECT_ID |-> GCP_PROJECT_ID]
    /\ pc' = suspended.pc
    /\ df' = suspended.df
    /\ features' = suspended.features
    /\ le_region' = suspended.le_region
    /\ le_income' = suspended.le_income
    /\ model' = suspended.model
    /\ predictions' = suspended.predictions
    /\ error' = suspended.error
    /\ GCP_PROJECT_ID' = suspended.GCP_PROJECT_ID
    /\ UNCHANGED <<outputs, utcnow, extractor>>

\* Lines 213-244: one pass of the while loop of extract_indicator; the
\* function returns when the loop breaks.
ExtractIndicator ==
    /\ wb_pc = "request"
    /\ requested' = Append(requested, page)
    /\ LET data == response(server, page)
       IN  IF Len(data) < 2 \/ data[2] = <<>>
           THEN /\ wb_pc' = "done"
                /\ UNCHANGED <<page, all_data>>
           ELSE /\ all_data' = all_data \o extracted(data[2], utcnow)
                /\ IF last_page(page, data[1])
                   THEN wb_pc' = "done" /\ UNCHANGED page
                   ELSE page' = page + 1 /\ UNCHANGED wb_pc
    /\ UNCHANGED <<server, process, outputs, utcnow, suspended>>

\* Line 332: wb.extract_indicator(code, name) is called; lines 210-211.
InitExtract ==
    /\ pc = "none"
    /\ df = <<>>
    /\ features = <<>>
    /\ le_region = <<>>
    /\ le_income = <<>>
    /\ model = NoModel
    /\ predictions = <<>>
    /\ error = "none"
    /\ GCP_PROJECT_ID = DefaultProject
    /\ InitOutputs
    /\ suspended = NoProcess
    /\ wb_pc = "request"
    /\ server \in Servers
    /\ page = 1
    /\ all_data = <<>>
    /\ requested = <<>>

NextExtract == ExtractIndicator

\* requests.get returns or raises within its timeout, so the loop goes on
\* while it has not broken.
SpecExtract == InitExtract /\ [][NextExtract]_vars /\ WF_vars(NextExtract)

Init == InitWith(Tables(RowsAgg))

\* The stages of main up to the predictions.
Next == EngineerFeatures \/ TrainModel(ProbCoarse) \/ GeneratePredictions

Spec == Init /\ [][Next]_vars

InitJoin == InitWith(Tables(RowsJoin))

SpecJoin == InitJoin /\ [][Next]_vars

InitEnc == InitWith(Tables(RowsEnc))

SpecEnc == InitEnc /\ [][Next]_vars

\* A whole run of main, with its two exports.
NextMain == Next \/ ExportToBigquery \/ SavePredictionsCsv

SpecMain == Init /\ [][NextMain]_vars

\* The table of the second project's warehouse: other countries.
PeerTable ==
    <<Trend("CCC", "G1", Num(-2), CtxUnknown),
      Trend("CCC", "G2", Num(4), CtxEurope),
      Trend("DDD", "G1", NaN, CtxEurope)>>

\* Two processes of main at once, started from one checkout with
\* GCP_PROJECT_ID naming two projects; each has loaded its table.
InitPair ==
    /\ Start({t \in RunTables : Len(t) # 4})
    /\ suspended = Loaded("sdg-tracker-b", PeerTable)

NextPair == NextMain \/ Switch

SpecPair == InitPair /\ [][NextPair]_vars

\* Runs of main one after the other.
InitRuns == InitWith(RunTables)

NextRuns == NextMain \/ Main(RunTables)

SpecRuns == InitRuns /\ [][NextRuns]_vars

InitPred == InitWith(Tables(RowsPred))

NextPred == EngineerFeatures \/ TrainModel(ProbGrid) \/ GeneratePredictions

SpecPred == InitPred /\ [][NextPred]_vars

(***************************************************************************)
(* Properties                                                              *)
(***************************************************************************)
Engineered == pc # "engineer_features"

Predicted == pc = "export_to_bigquery"

Rows(t) == 1..Len(t)

LessEq(x, y) == ~Less(y, x)

\* The k-th smallest of the values of s, stated by counting.
OrderStat(s, k) ==
    CHOOSE v \in Range(s) :
        /\ Cardinality({j \in Rows(s) : Less(s[j], v)}) < k
        /\ Cardinality({j \in Rows(s) : LessEq(s[j], v)}) >= k

\* Twice the median of s (s not empty), stated by counting.
TwiceMedian(s) ==
    LET n == Len(s)
    IN  IF n % 2 = 1
        THEN Add(OrderStat(s, (n + 1) \div 2), OrderStat(s, (n + 1) \div 2))
        ELSE Add(OrderStat(s, n \div 2), OrderStat(s, n \div 2 + 1))

Probability(i) == predictions[i].prediction_2030_probability

Category(i) == predictions[i].prediction_category

InUnit(p) == LessEq(Num(0), p) /\ LessEq(p, Num(1))

\* C2: the probability-to-category mapping is a total partition of [0,1]:
\* [0,0.3] -> Off Track, (0.3,0.5] -> At Risk, (0.5,0.7] -> Moderate
\* Progress, (0.7,1] -> On Track, and no probability of [0,1], the endpoints
\* included, is left without a category.
C2_TotalPartition ==
    Predicted =>
        \A i \in Rows(predictions) :
            LET p == Probability(i)
            IN  InUnit(p) =>
                   Category(i) =
                      IF LessEq(p, Frac(3, 10)) THEN "Off Track"
                      ELSE IF LessEq(p, Frac(1, 2)) THEN "At Risk"
                      ELSE IF LessEq(p, Frac(7, 10)) THEN "Moderate Progress"
                      ELSE "On Track"

\* C3 as claimed: on_track_2030 and category each follow from the probability
\* alone, on_track_2030 = 1 exactly when probability >= 0.5; at probability
\* 0.5 the prediction is on_track_2030 = 1 with "Moderate Progress", at
\* 0.49999 it is on_track_2030 = 0 with "At Risk".
C3_HalfIsModerate ==
    Predicted =>
        \A i \in Rows(predictions) :
            /\ predictions[i].prediction_2030_on_track =
                  IF LessEq(Frac(1, 2), Probability(i)) THEN 1 ELSE 0
            /\ Probability(i) = Frac(1, 2) => Category(i) = "Moderate Progress"
            /\ Probability(i) = Frac(49999, 100000) => Category(i) = "At Risk"

\* C3 as amended: on_track_2030 and category each follow from the probability
\* alone, on_track_2030 = 1 exactly when probability >= 0.5; at probability
\* 0.5 the prediction is on_track_2030 = 1 with "At Risk", at 0.49999 it is
\* on_track_2030 = 0 with "At Risk".
C3_HalfIsAtRisk ==
    Predicted =>
        /\ \A i \in Rows(predictions) :
              /\ predictions[i].prediction_2030_on_track =
                    IF LessEq(Frac(1, 2), Probability(i)) THEN 1 ELSE 0
              /\ Probability(i) = Frac(1, 2) => Category(i) = "At Risk"
              /\ Probability(i) = Frac(49999, 100000) => Category(i) = "At Risk"
        /\ \A i, j \in Rows(predictions) :
              Probability(i) = Probability(j) =>
                 /\ predictions[i].prediction_2030_on_track =
                       predictions[j].prediction_2030_on_track
                 /\ Category(i) = Category(j)

\* One prediction at probability 0.5 and one at 0.49999.
C3_Witness ==
    /\ Predicted
    /\ \E i, j \in Rows(predictions) :
          /\ Probability(i) = Frac(1, 2)
          /\ predictions[i].prediction_2030_on_track = 1
          /\ Probability(j) = Frac(49999, 100000)
          /\ predictions[j].prediction_2030_on_track = 0

KeyOf(r) == <<r.country_code, r.goal_code>>

\* The keys of the table: the (country_code, goal_code) pairs of its rows
\* that have both.
KeysOf(t) == {KeyOf(t[j]) : j \in {i \in Rows(t) : HasKey(t[i])}}

Observations(t, k) == {j \in Rows(t) : KeyOf(t[j]) = k}

\* C4: for every input table, in any row order, engineer_features produces
\* exactly one record per distinct (country_code, goal_code) key with at least
\* one observation, and its data_points is the number of observations with
\* that key.
C4_OneRecordPerKey ==
    Engineered =>
        /\ \A k \in KeysOf(df) :
              \E i \in Rows(features) :
                 /\ KeyOf(features[i]) = k
                 /\ features[i].data_points = Cardinality(Observations(df, k))
                 /\ \A j \in Rows(features) : KeyOf(features[j]) = k => j = i
        /\ \A i \in Rows(features) : KeyOf(features[i]) \in KeysOf(df)

\* Two keys of one country, one of them with two observations that are not
\* adjacent in the input.
C4_Witness ==
    /\ Engineered
    /\ Len(df) = 3
    /\ KeyOf(df[1]) = KeyOf(df[3])
    /\ HasKey(df[1]) /\ HasKey(df[2])
    /\ df[2].country_code = df[1].country_code
    /\ df[2].goal_code # df[1].goal_code
    /\ Len(features) = 2
    /\ \E i \in Rows(features) : features[i].data_points = 2

SingleObservation(k) == Cardinality(Observations(df, k)) = 1

TheObservation(k) == df[CHOOSE j \in Rows(df) : KeyOf(df[j]) = k]

LatestRows(c) ==
    {j \in Rows(df) :
        /\ df[j].country_code = c
        /\ \A l \in Rows(df) :
              df[l].country_code = c => df[l].year <= df[j].year}

NumericAttrs ==
    {"gdp_per_capita", "population", "life_expectancy", "adult_literacy_rate"}

\* C6: the region, income_level and numeric attributes joined onto a
\* country's records all come from one observation, the one with the
\* country's maximum year; an attribute missing there is not taken from an
\* earlier year (a missing region or income_level stays missing, a numeric
\* attribute present there is the one joined).
C6_AttrsOfLatestObservation ==
    Engineered =>
        \A i \in Rows(features) :
            \A j \in LatestRows(features[i].country_code) :
               LatestRows(features[i].country_code) = {j} =>
                  /\ features[i].region = df[j].region
                  /\ features[i].income_level = df[j].income_level
                  /\ \A a \in NumericAttrs :
                        ~IsNaN(df[j][a]) => features[i][a] = df[j][a]

\* The value -> code pairs of an encoded column.
CodeMap(values, codes) == {<<values[i], codes[i]>> : i \in Rows(values)}

\* Batches of a categorical column: up to one cell more than the table has
\* records, each cell one of the values or missing.
Batches(values) ==
    UNION {[1..n -> values \cup {NA}] : n \in 1..(Len(features) + 1)}

SameEncoding(column, encoded) ==
    LET filled == Unknown(Column(features, column))
    IN  \A other \in Batches(Range(filled)) :
            Range(Unknown(other)) = Range(filled) =>
               CodeMap(Unknown(other), fit_transform(Unknown(other)))
                  = CodeMap(filled, Column(features, encoded))

\* C7: the encoder is deterministic and order-independent: any batch with the
\* same set of distinct values (missing replaced by "Unknown"), in any row
\* order and with any multiplicities, gives every value the code it has in
\* the batch engineer_features returned.
C7_EncoderOrderIndependent ==
    pc = "train_model" =>
        /\ SameEncoding("region", "region_encoded")
        /\ SameEncoding("income_level", "income_encoded")

\* Three records whose regions are not in alphabetical order, one missing.
C7_Witness ==
    /\ Engineered
    /\ Len(features) = 3
    /\ features[1].region = "Europe"
    /\ features[2].region = NA
    /\ features[3].region = "Asia"
    /\ features[3].region_encoded = 0
    /\ features[2].region_encoded = 2

DenseCodes(column, encoded) ==
    LET filled == Unknown(Column(features, column))
        codes  == Column(features, encoded)
        n      == Cardinality(Range(filled))
    IN  /\ Range(codes) = 0..(n - 1)
        /\ \A i, j \in Rows(features) :
              (codes[i] = codes[j]) <=> (filled[i] = filled[j])
        /\ \A i, j \in Rows(features) :
              features[i][column] = NA /\ features[j][column] \in {NA, "Unknown"}
                 => codes[i] = codes[j]

\* C8: for region and for income_level the codes of a batch are dense and
\* zero-based: with missing values replaced by "Unknown", the n distinct
\* values map one-to-one onto 0..n-1, and every record with a missing value
\* has the code of "Unknown".
C8_DenseZeroBasedCodes ==
    Engineered =>
        /\ DenseCodes("region", "region_encoded")
        /\ DenseCodes("income_level", "income_encoded")

\* Three records: a missing region and a literal "Unknown" sharing code 1
\* after "Asia" with code 0, and two distinct income codes.
C8_Witness ==
    /\ Engineered
    /\ Len(features) = 3
    /\ Range(Column(features, "income_encoded")) = {0, 1}
    /\ \E i, j, k \in Rows(features) :
          /\ features[i].region = NA
          /\ features[j].region = "Unknown"
          /\ features[k].region = "Asia"
          /\ features[i].region_encoded = 1
          /\ features[j].region_encoded = 1
          /\ features[k].region_encoded = 0

HasNull(r) ==
    r.country_code = NA \/ r.goal_code = NA \/ IsNaN(r.avg_indicator_value)

\* C9: when an input observation has a missing country_code, goal_code or
\* avg_indicator_value, engineer_features fails with a DataIntegrityError and
\* produces no records: the observation is not silently dropped or folded
\* into the statistics.  Stated for tables that also hold a complete
\* observation, so that there are statistics to produce.
C9_NullsRejected ==
    (/\ Engineered
     /\ \E j \in Rows(df) : HasNull(df[j])
     /\ \E j \in Rows(df) : ~HasNull(df[j])) =>
        /\ pc = "failed"
        /\ error = "DataIntegrityError"
        /\ features = <<>>

\* C10: when the training split holds fewer than 2 distinct label classes,
\* train_model fails with a TrainingError: no model is returned and
\* generate_predictions is never run.
C10_OneClassRejected ==
    /\ Len(model.classes_) # 1
    /\ (/\ pc \notin {"engineer_features", "train_model"}
        /\ Len(features) >= 2
        /\ \A i \in Rows(features) : features[i].on_track_2030 = 0)
          => /\ pc = "failed"
             /\ error = "TrainingError"
             /\ model = NoModel

\* C11: when all values of a numeric attribute (gdp_per_capita, population,
\* life_expectancy or adult_literacy_rate) are missing in the batch, so that
\* its median is undefined, the run aborts with an ImputationError: it does
\* not go on with the attribute still missing or filled by another value.
C11_AllMissingAborts ==
    (/\ Engineered
     /\ features # <<>>
     /\ \E a \in NumericAttrs : \A j \in Rows(df) : IsNaN(df[j][a])) =>
        /\ pc = "failed"
        /\ error = "ImputationError"

\* C12: a run of main that fails at any stage leaves no partially written
\* output: after the failure the project's ml_sdg_predictions table and
\* ml_sdg_predictions.csv are either both as they were before the run (a
\* first run: both absent) or both hold the complete new predictions, never
\* one updated and the other not.
C12_NoPartialOutput ==
    pc = "failed" =>
        \/ /\ ml_sdg_predictions[GCP_PROJECT_ID] = Absent
           /\ csv_file = Absent
        \/ /\ ml_sdg_predictions[GCP_PROJECT_ID] =
                 Stored(df_export(predictions, utcnow))
           /\ csv_file = Stored(to_csv(predictions))

StoredTable == ml_sdg_predictions[GCP_PROJECT_ID]

\* The rows of a stored output are the predictions of this run: one row per
\* record of the run's table, in its order, with the record's key,
\* probability, flag and category.
RowsOfThisRun(rows) ==
    /\ Len(rows) = Cardinality(KeysOf(df))
    /\ Len(rows) = Len(predictions)
    /\ \A i \in Rows(rows) :
          /\ KeyOf(rows[i]) = KeyOf(predictions[i])
          /\ rows[i].prediction_2030_probability = Probability(i)
          /\ rows[i].prediction_2030_on_track =
                predictions[i].prediction_2030_on_track
          /\ rows[i].data_points = predictions[i].data_points
    /\ \A i, j \in Rows(rows) : KeyOf(rows[i]) = KeyOf(rows[j]) => i = j

\* C13: the output has full-overwrite semantics: after any sequence of runs
\* that ends with a successful one, the table and the CSV file hold exactly
\* the predictions of the most recent run, one per record of that run, every
\* table row stamped by that run, and no row of an earlier run.
C13_FullOverwrite ==
    pc = "done" =>
        /\ StoredTable.exists /\ csv_file.exists
        /\ RowsOfThisRun(StoredTable.rows)
        /\ RowsOfThisRun(csv_file.rows)
        /\ \A i \in Rows(StoredTable.rows) :
              StoredTable.rows[i].predicted_at = utcnow

\* A second run that has ended well on the table of three keys.
C13_Witness ==
    /\ pc = "done"
    /\ utcnow = 2
    /\ Len(StoredTable.rows) = 3
    /\ Len(csv_file.rows) = 3
    /\ \A i \in Rows(StoredTable.rows) : StoredTable.rows[i].predicted_at = 2

\* C14: two runs of the pipeline at once on disjoint datasets do not
\* interfere: under every interleaving of their stages, when both have
\* ended well each run's outputs, its project's table and the CSV file,
\* hold exactly the predictions that run produced, as they would had it run
\* alone.
C14_NoInterference ==
    (pc = "done" /\ suspended.pc = "done") =>
        /\ StoredTable.rows = df_export(predictions, utcnow)
        /\ csv_file.rows = to_csv(predictions)
        /\ ml_sdg_predictions[suspended.GCP_PROJECT_ID].rows =
              df_export(suspended.predictions, utcnow)
        /\ csv_file.rows = to_csv(suspended.predictions)

\* generate_predictions applied to the table it returned, with the same
\* model and feature columns.
PredictedAgain ==
    with_predictions(predictions,
        Column(predict_proba(model, feature_matrix(predictions)), 2))

\* C15: generate_predictions scores the full feature matrix, giving exactly
\* one prediction for every key of the input (records of the training split
\* and of the test split alike), and it is idempotent: applied again to the
\* table it returned, with the same model, it gives every record the same
\* probability, flag and category.
C15_ScoresAllIdempotent ==
    Predicted =>
        /\ Len(predictions) = Cardinality(KeysOf(df))
        /\ \A k \in KeysOf(df) :
              \E i \in Rows(predictions) : KeyOf(predictions[i]) = k
        /\ Len(PredictedAgain) = Len(predictions)
        /\ \A i \in Rows(predictions) :
              /\ PredictedAgain[i].prediction_2030_probability = Probability(i)
              /\ PredictedAgain[i].prediction_2030_on_track =
                    predictions[i].prediction_2030_on_track
              /\ PredictedAgain[i].prediction_category = Category(i)
        /\ PredictedAgain = predictions

\* Three records scored, two of them of the training split, with different
\* probabilities.
C15_Witness ==
    /\ Predicted
    /\ Len(predictions) = 3
    /\ Len(features) = 3
    /\ \E i, j \in Rows(predictions) : Probability(i) # Probability(j)

\* The sum of the present yoy_change of the rows of df numbered in obs.
RECURSIVE ChangeSum(_)
ChangeSum(obs) ==
    IF obs = {} THEN Num(0)
    ELSE LET j == CHOOSE x \in obs : TRUE
         IN  IF IsNaN(df[j].yoy_change) THEN ChangeSum(obs \ {j})
             ELSE Add(df[j].yoy_change, ChangeSum(obs \ {j}))

\* C16: for every key and every order of the input rows, latest_year is the
\* largest year of the key's observations, value_latest is the value of an
\* observation of that year, value_min <= value_latest <= value_max, and
\* total_change is the sum of the observations' present yoy_change (0 when
\* none is present).  Stated for keys whose observations all have a value,
\* as load_training_data selects them.
C16_LatestAndTotals ==
    Engineered =>
        \A i \in Rows(features) :
            LET obs == Observations(df, KeyOf(features[i]))
            IN  /\ \A j \in obs : df[j].year <= features[i].latest_year
                /\ \E j \in obs : df[j].year = features[i].latest_year
                /\ features[i].total_change = ChangeSum(obs)
                /\ (\A j \in obs : ~IsNaN(df[j].avg_indicator_value)) =>
                      /\ \E j \in obs :
                            /\ df[j].year = features[i].latest_year
                            /\ features[i].value_latest =
                                  df[j].avg_indicator_value
                      /\ LessEq(features[i].value_min, features[i].value_latest)
                      /\ LessEq(features[i].value_latest, features[i].value_max)

\* One key with three observations given latest first: the value of 2001
\* is the latest although the input ends with the observation of 2000, and
\* the two present changes add up to 2.
C16_Witness ==
    /\ Engineered
    /\ Len(df) = 3
    /\ Len(features) = 1
    /\ df[1].year = 2001 /\ df[2].year = 2001 /\ df[3].year = 2000
    /\ df[3].avg_indicator_value # df[2].avg_indicator_value
    /\ features[1].latest_year = 2001
    /\ features[1].value_latest = df[2].avg_indicator_value
    /\ features[1].total_change = Num(2)

\* The float columns among feature_cols.
FloatFeatures ==
    {"value_mean", "value_std", "value_min", "value_max", "value_latest",
     "avg_yoy_change", "total_change", "avg_indicators_measured"}
        \cup NumericAttrs

\* features is joined with its missing numeric attributes replaced by the
\* median of the attribute's present values over the records of joined.
ImputedFrom(joined) ==
    /\ Len(joined) = Len(features)
    /\ \A i \in Rows(features) :
          \A a \in NumericAttrs :
             IF IsNaN(joined[i][a])
             THEN Add(features[i][a], features[i][a])
                     = TwiceMedian(dropna(Column(joined, a)))
             ELSE features[i][a] = joined[i][a]

Flag(i) == predictions[i].prediction_2030_on_track

\* C18: in every prediction the flag and the category agree in direction:
\* "Moderate Progress" or "On Track" implies prediction_2030_on_track = 1,
\* "Off Track" implies 0, and "At Risk" with the flag 1 occurs only at
\* probability exactly 0.5.
C18_FlagAgreesWithCategory ==
    Predicted =>
        \A i \in Rows(predictions) :
            /\ Category(i) \in {"Moderate Progress", "On Track"} => Flag(i) = 1
            /\ Category(i) = "Off Track" => Flag(i) = 0
            /\ (Category(i) = "At Risk" /\ Flag(i) = 1)
                  => Probability(i) = Frac(1, 2)

\* Predictions "At Risk" with the flag 1 (at 0.5), "Moderate Progress" with
\* the flag 1 and "Off Track" with the flag 0 in one batch.
C18_Witness ==
    /\ Predicted
    /\ \E i, j, k \in Rows(predictions) :
          /\ Category(i) = "At Risk" /\ Flag(i) = 1
          /\ Probability(i) = Frac(1, 2)
          /\ Category(j) = "Moderate Progress" /\ Flag(j) = 1
          /\ Category(k) = "Off Track" /\ Flag(k) = 0

\* The records page p of the API holds.
PageOf(p) == IF p \in 1..Len(server.content) THEN server.content[p] ELSE <<>>

\* The answer to the request of page p ends the loop: it carries no records,
\* or p has reached the page count it reports.
Stops(p) == server.error \/ PageOf(p) = <<>> \/ p >= server.pages

\* The records of pages 1..n, in order.
RECURSIVE PagesUpTo(_)
PagesUpTo(n) == IF n = 0 THEN <<>> ELSE PagesUpTo(n - 1) \o PageOf(n)

NotNull(r) == r.value # NaN

\* The records of the pages requested whose value is not null.
Kept ==
    IF server.error THEN <<>> ELSE SelectSeq(PagesUpTo(Len(requested)), NotNull)

\* all_data holds, in order, a row for each record of Kept.
HoldsKept ==
    /\ Len(all_data) = Len(Kept)
    /\ \A i \in Rows(all_data) :
          /\ all_data[i].country_code = Kept[i].country.id
          /\ (all_data[i].year = 2000) <=> (Kept[i].date = "2000")
          /\ (all_data[i].year = 2024) <=> (Kept[i].date = "2024")

PagesInOrder ==
    /\ requested = [i \in 1..Len(requested) |-> i]
    /\ \A i \in 1..(Len(requested) - 1) : ~Stops(i)
    /\ wb_pc = "request" => page = Len(requested) + 1
    /\ wb_pc = "done" => Len(requested) >= 1 /\ Stops(Len(requested))
    /\ HoldsKept

\* C19: extract_indicator requests pages 1, 2, 3, ... in increasing order,
\* none twice, and stops after the first answer that carries no records or
\* whose page has reached the page count the answer reports; against an API
\* reporting a fixed page count the loop ends, and the result holds the
\* records (those with a value) of exactly the pages requested.
C19_PagesInOrder == [](PagesInOrder) /\ <>(wb_pc = "done")

\* Three pages requested from an API that reports three pages, the result
\* holding rows of the first and of the third.
C19_Witness ==
    /\ wb_pc = "done"
    /\ requested = <<1, 2, 3>>
    /\ server.pages = 3
    /\ Len(all_data) = 3
    /\ all_data[1].country_code = "CCC"
    /\ all_data[2].country_code = "AAA"

\* C20: every row extract_indicator returns has a value that is not null:
\* records whose value is null are skipped, and every record whose value is
\* not null, zero included, is in the result with that same value.
C20_ValuesKept ==
    /\ Len(all_data) = Len(Kept)
    /\ \A i \in Rows(all_data) :
          /\ all_data[i].value # NaN
          /\ all_data[i].value = Kept[i].value
====
